---- MODULE Spec2Model ----
(***************************************************************************)
(* License-plate pipeline and plate identity tracker of                    *)
(* frigate/data_processing/real_time/license_plate_processor.py.           *)
(*                                                                         *)
(* Conventions.  Python lists are 0-based, sequences here are 1-based;     *)
(* every index of the source is shifted by one.  A text is a sequence of   *)
(* one-character strings.  Confidences and scores are integers in tenths   *)
(* (9 stands for 0.9); an average sum/len is never formed, two averages    *)
(* are compared by cross-multiplication, which is exact.                   *)
(***************************************************************************)
EXTENDS Integers, Sequences, FiniteSets, TLC

VARIABLES
    detected_license_plates, \* self.detected_license_plates: id -> entry or None
    runner,                  \* which of the three model runners are loaded
    requires_license_plate_detection, \* set from the configuration at construction
    last,                    \* what the most recent call did (observable effects)
    expired,                 \* history: per id, what its last expire_object removed,
                             \*   while no plate has been stored for the id since
    plate_images,            \* pipeline: the cropped plate images of one frame
    classify_out,            \* pipeline: what _classify returned for them
    plate_out,               \* pipeline: what _process_license_plate computed
    output,                  \* decoder: one recognition output, a row per timestep
    decoded,                 \* decoder: what CTCDecoder returned for it
    calls,                   \* overlapping calls: per caller, the call it is in
    points,                  \* geometry: the corners of one detected polygon
    filtered,                \* geometry: what _filter_polygon made of it
    cropped,                 \* geometry: what _crop_license_plate made of that
    plate_points,            \* ordering: the polygons one _detect call returned
    sorted_points,           \* ordering: what _sort_polygon made of them
    total_events,            \* reindex: the number of events the count query found
    current_page,            \* reindex: the page the loop is at
    totals,                  \* reindex: the progress dictionary
    sent                     \* reindex: the progress reports sent so far

vars == <<detected_license_plates, runner, requires_license_plate_detection,
          last, expired, plate_images, classify_out, plate_out,
          output, decoded, calls, points, filtered, cropped,
          plate_points, sorted_points, total_events, current_page, totals, sent>>

tracker_vars == <<detected_license_plates, runner,
                  requires_license_plate_detection, last, expired>>
pipeline_vars == <<plate_images, classify_out, plate_out>>
decoder_vars == <<output, decoded>>
\* what the tracker and the pipeline steps leave alone
geometry_vars == <<points, filtered, cropped>>
sort_vars == <<plate_points, sorted_points>>
reindex_vars == <<total_events, current_page, totals, sent>>
side_vars == <<decoder_vars, calls, geometry_vars, sort_vars, reindex_vars>>

\* Python's None, and the absence of a key in a dict
None == [none |-> TRUE]

\* history value: expire_object was never called for the id
Never == [never |-> TRUE]

---------------------------------------------------------------------------
(* Program constants and configuration *)

MIN_PLATE_LENGTH == 3

batch_size == 6

\* self.lpr_config.threshold, in tenths (0.7)
threshold == 7

\* self.config.lpr.min_area
min_area == 4

---------------------------------------------------------------------------
(* Bounds *)

\* most plate images in one frame of the pipeline specification
MaxImages == 7

\* most plate images in one frame handed to process_frame
MaxPlates == 2

\* most timesteps of a recognition output
MaxSteps == 5

\* the frame of the geometry specification: its width and its height
FrameWidth == 4
FrameHeight == 4

---------------------------------------------------------------------------
(* Plate images.  An image is its shape (w, h), whether it has been turned *)
(* by 180 degrees, and what the two external models answer when they are   *)
(* shown it: cls is the orientation model's (label, score), text/conf the  *)
(* recognition model's decoded text and per-character confidences.         *)

PlateImage(w, h, text, conf, label, score) ==
    [w |-> w, h |-> h, rot |-> FALSE, text |-> text, conf |-> conf,
     cls |-> <<label, score>>]

\* Shapes have pairwise distinct width/height ratios and height < 1.5 width
\* (what _crop_license_plate returns).
Catalog ==
    << PlateImage(4, 1, <<"A","B","C">>,     <<9,5,5>>,   "0",   9),
       PlateImage(2, 2, <<"A","B","C">>,     <<5,9,9>>,   "180", 9),
       PlateImage(6, 1, <<"A","B">>,         <<9,9>>,     "180", 5),
       PlateImage(3, 2, <<"A","B","C","D">>, <<5,5,9,9>>, "0",   7),
       PlateImage(2, 1, <<"A","B","C","D">>, <<9,9,9,9>>, "180", 7),
       PlateImage(3, 1, <<"X","Y","Z">>,     <<9,9,9>>,   "0",   5),
       PlateImage(5, 1, <<"A","B","C">>,     <<5,5,5>>,   "180", 8) >>

Images == {Catalog[i] : i \in 1..Len(Catalog)}

---------------------------------------------------------------------------
(* Helpers *)

Min(a, b) == IF a <= b THEN a ELSE b

\* the list with elements f[1], ..., f[n]
List(f, n) == SubSeq(f, 1, n)

RECURSIVE Sum(_)
Sum(s) == IF s = <<>> THEN 0 ELSE Head(s) + Sum(Tail(s))

\* x.shape[1] / x.shape[0] of a is below that of b
RatioLess(a, b) == a.w * b.h < b.w * a.h

\* np.argsort of the width/height ratios: argsort(images)[p] is the index of
\* the image with the p-th smallest ratio (equal ratios keep their order).
argsort(images) ==
    LET n == Len(images)
        before(j, k) == \/ RatioLess(images[j], images[k])
                        \/ (~RatioLess(images[k], images[j]) /\ j < k)
        rank(k) == 1 + Cardinality({j \in 1..n : j # k /\ before(j, k)})
    IN  List([p \in 1..n |-> CHOOSE k \in 1..n : rank(k) = p], n)

\* The value of norm_images when the batching loop ends: the list is reset
\* at the start of every batch, so it holds the last batch only, in sorted
\* order.
norm_images_after_loop(images, indices) ==
    LET n  == Len(images)
        i0 == ((n - 1) \div batch_size) * batch_size
    IN  List([j \in 1..(n - i0) |-> images[indices[i0 + j]]], n - i0)

\* cv2.rotate(image, 1): a turn by 180 degrees; the shape is kept
rotate(image) == [image EXCEPT !.rot = ~@]

---------------------------------------------------------------------------
(* _classify and _process_classification_output *)

\* The orientation model: one (label, score) per image it is given.
classification_model(norm_images) ==
    List([j \in 1..Len(norm_images) |-> norm_images[j].cls], Len(norm_images))

process_classification_output(images, outputs) ==
    LET n       == Len(images)
        m       == Len(outputs)
        indices == argsort(images)
        \* the loops write position i + j for every batch start i and every
        \* j < len(outputs): sorted position p (1-based) is written with
        \* outputs[(p - 1) mod batch_size]
        written(p) == ((p - 1) % batch_size) < m
        out(p)     == outputs[((p - 1) % batch_size) + 1]
        pos(k)     == CHOOSE p \in 1..n : indices[p] = k
    IN  [images  |-> List([k \in 1..n |->
                        IF /\ written(pos(k))
                           /\ out(pos(k))[1] = "180"
                           /\ out(pos(k))[2] >= threshold
                        THEN rotate(images[k]) ELSE images[k]], n),
         results |-> List([k \in 1..n |->
                        IF written(pos(k)) THEN out(pos(k)) ELSE <<"", 0>>], n)]

classify(images) ==
    LET indices     == argsort(images)
        norm_images == norm_images_after_loop(images, indices)
        outputs     == classification_model(norm_images)
    IN  process_classification_output(images, outputs)

---------------------------------------------------------------------------
(* _recognize *)

\* The recognition model followed by the CTC decoder: one text and one list
\* of per-character confidences per image it is given.
recognition_model(norm_images) ==
    [results     |-> List([j \in 1..Len(norm_images) |-> norm_images[j].text],
                          Len(norm_images)),
     confidences |-> List([j \in 1..Len(norm_images) |-> norm_images[j].conf],
                          Len(norm_images))]

recognize(images) ==
    LET indices     == argsort(images)
        norm_images == norm_images_after_loop(images, indices)
    IN  recognition_model(norm_images)

---------------------------------------------------------------------------
(* _process_license_plate *)

\* reverse_mapping = {idx: original_idx for original_idx, idx in
\*                    enumerate(sorted_indices)}
reverse_mapping(sorted_indices) ==
    List([idx \in 1..Len(sorted_indices) |->
            CHOOSE original_idx \in 1..Len(sorted_indices) :
                sorted_indices[original_idx] = idx], Len(sorted_indices))

\* "map results back to original image order": result i goes to slot
\* reverse_mapping[i]; a slot no result goes to keeps ("", [0.0], 0).
map_results(rotated_images, results, confidences) ==
    LET n  == Len(rotated_images)
        m  == Len(results)
        rm == reverse_mapping(argsort(rotated_images))
        filled(k) == \E i \in 1..m : rm[i] = k
        from(k)   == CHOOSE i \in 1..m : rm[i] = k
    IN  List([k \in 1..n |->
            IF filled(k)
            THEN [plate |-> results[from(k)],
                  conf  |-> confidences[from(k)],
                  area  |-> rotated_images[k].h * rotated_images[k].w]
            ELSE [plate |-> <<>>, conf |-> <<0>>, area |-> 0]], n)

\* Python's order on lists of numbers
ListLess(a, b) ==
    \/ \E i \in 1..Min(Len(a), Len(b)) :
          /\ \A j \in 1..(i - 1) : a[j] = b[j]
          /\ a[i] < b[i]
    \/ /\ Len(a) < Len(b)
       /\ \A j \in 1..Len(a) : a[j] = b[j]

\* the sort key (x[2], len(x[0]), x[1]); x[1] is the list of confidences
KeyLess(x, y) ==
    \/ x.area < y.area
    \/ /\ x.area = y.area
       /\ \/ Len(x.plate) < Len(y.plate)
          \/ /\ Len(x.plate) = Len(y.plate)
             /\ ListLess(x.conf, y.conf)

\* faulty variant of long_enough: the limit is off by one
long_enough_off_by_one(plate) == Len(plate) >= MIN_PLATE_LENGTH - 1

\* "Filter out plates that have a length of less than 3 characters"
long_enough(plate) == Len(plate) >= MIN_PLATE_LENGTH

\* sorted(..., key, reverse=True) of the entries with len(plate) >= 3;
\* entries with equal keys keep their order
sorted_data(mapped) ==
    LET kept == SelectSeq(mapped, LAMBDA c : long_enough(c.plate))
        n    == Len(kept)
        before(j, k) == \/ KeyLess(kept[k], kept[j])
                        \/ (~KeyLess(kept[j], kept[k]) /\ j < k)
        rank(k) == 1 + Cardinality({j \in 1..n : j # k /\ before(j, k)})
    IN  List([p \in 1..n |-> kept[CHOOSE k \in 1..n : rank(k) = p]], n)

\* faulty variant of all_runners_loaded: only the detection runner is
\* looked at
all_runners_loaded_detection_only(r) == r["detection"]

\* none of the three runners is None ("we might still be downloading the
\* models")
all_runners_loaded(r) ==
    r["detection"] /\ r["classification"] /\ r["recognition"]

\* The slots (plate, conf, area) per image, in the order of the images,
\* before the filter and the sort.
mapped_plates(images) ==
    LET rotated_images == classify(images).images
        rec == recognize(rotated_images)
    IN  map_results(rotated_images, rec.results, rec.confidences)

\* images: the crops of the regions _detect found in the frame.  The result
\* is the ranked list; <<>> stands for ([], [], []).
process_license_plate(r, images) ==
    IF ~all_runners_loaded(r) THEN <<>>
    ELSE IF Len(images) = 0 THEN <<>>
    ELSE IF Len(recognize(classify(images).images).results) > 0
         THEN sorted_data(mapped_plates(images))
         ELSE <<>>

---------------------------------------------------------------------------
(* The pipeline specification: the plate images of one frame arrive one by *)
(* one in any order; then _classify and _process_license_plate are applied *)
(* to them.                                                                *)

Ids == {"7", "42"}

AllLoaded == [m \in {"detection", "classification", "recognition"} |-> TRUE]

NoCall == [op |-> "init", id |-> "", outcome |-> "", sub_label |-> "",
           prev |-> None, top |-> None, request |-> None,
           obj |-> None, invoked |-> FALSE]

\* nothing handed to the decoder yet
DecoderInit ==
    /\ output = <<>>
    /\ decoded = None

\* the callers that may be inside a call at the same time
Callers == {"c1", "c2"}

Idle == [pc |-> "idle"]

SideInit ==
    /\ DecoderInit
    /\ calls = [c \in Callers |-> Idle]
    /\ points = <<>>
    /\ filtered = None
    /\ cropped = None
    /\ plate_points = <<>>
    /\ sorted_points = None
    /\ total_events = 0
    /\ current_page = 1
    /\ totals = None
    /\ sent = <<>>

PipeInit ==
    /\ detected_license_plates = [i \in Ids |-> None]
    /\ runner = AllLoaded
    /\ requires_license_plate_detection = FALSE
    /\ last = NoCall
    /\ expired = [i \in Ids |-> Never]
    /\ plate_images = <<>>
    /\ classify_out = None
    /\ plate_out = None
    /\ SideInit

PlateDetected(img) ==
    /\ Len(plate_images) < MaxImages
    /\ \A k \in 1..Len(plate_images) : plate_images[k] # img
    /\ classify_out = None
    /\ plate_out = None
    /\ plate_images' = Append(plate_images, img)
    /\ UNCHANGED <<classify_out, plate_out, tracker_vars, side_vars>>

Classify ==
    /\ Len(plate_images) > 0
    /\ classify_out = None
    /\ classify_out' = classify(plate_images)
    /\ UNCHANGED <<plate_images, plate_out, tracker_vars, side_vars>>

ProcessLicensePlate ==
    /\ Len(plate_images) > 0
    /\ plate_out = None
    /\ plate_out' = [mapped |-> mapped_plates(plate_images),
                     ranked |-> process_license_plate(runner, plate_images)]
    /\ UNCHANGED <<plate_images, classify_out, tracker_vars, side_vars>>

PipeNext ==
    \/ \E img \in Images : PlateDetected(img)
    \/ Classify
    \/ ProcessLicensePlate

PipeSpec == PipeInit /\ [][PipeNext]_vars

---------------------------------------------------------------------------
(* process_frame: the input guards *)

\* self.lpr_config.known_plates, in declaration order; a pattern is a
\* sequence of characters in which "." matches any one character
known_plates ==
    << [label  |-> <<"A","l","i","c","e">>,
        plates |-> << <<"X","Y","Z">> >>],
       [label  |-> <<"B","o","b">>,
        plates |-> << <<"Q","Q","Q">>, <<"X",".","Z">>, <<"A","B","C","D">> >>] >>

\* the attribute process_frame keeps: the first "license_plate" attribute
\* no later one has a higher score than
best_license_plate(attributes) ==
    LET lp == {a \in 1..Len(attributes) : attributes[a].label = "license_plate"}
    IN  IF lp = {} THEN None
        ELSE attributes[CHOOSE a \in lp :
                 /\ \A b \in lp : attributes[b].score <= attributes[a].score
                 /\ \A b \in lp : b < a => attributes[b].score < attributes[a].score]

\* faulty variant of has_other_sub_label: the sub label is not looked at
has_other_sub_label_ignored(detected, id, obj) == FALSE

\* "don't overwrite sub label for objects that have a sub label that is
\* not a license plate"
has_other_sub_label(detected, id, obj) ==
    obj.sub_label # "" /\ detected[id] = None

\* faulty variant of input_guard: a stationary car is not skipped
input_guard_stationary(detected, req_detection, id, obj) ==
    IF obj.label # "car" THEN "not_car"
    ELSE IF has_other_sub_label(detected, id, obj) THEN "sub_label"
    ELSE IF req_detection
    THEN IF ~obj.box THEN "no_car_box" ELSE "ok"
    ELSE IF obj.current_attributes = <<>> THEN "no_attributes"
    ELSE LET license_plate == best_license_plate(obj.current_attributes)
         IN  IF license_plate = None THEN "no_license_plate"
             ELSE IF \/ license_plate.box = None
                     \/ license_plate.box.area < min_area
                  THEN "invalid_box"
                  ELSE "ok"

\* "ok" when the frame reaches _process_license_plate, else the reason of
\* the early return
input_guard(detected, req_detection, id, obj) ==
    IF obj.label # "car" THEN "not_car"
    ELSE IF obj.stationary THEN "stationary"
    ELSE IF has_other_sub_label(detected, id, obj) THEN "sub_label"
    ELSE IF req_detection
    THEN IF ~obj.box THEN "no_car_box" ELSE "ok"
    ELSE IF obj.current_attributes = <<>> THEN "no_attributes"
    ELSE LET license_plate == best_license_plate(obj.current_attributes)
         IN  IF license_plate = None THEN "no_license_plate"
             ELSE IF \/ license_plate.box = None
                     \/ license_plate.box.area < min_area
                  THEN "invalid_box"
                  ELSE "ok"

---------------------------------------------------------------------------
(* process_frame: the replacement policy *)

\* (sum(c) / len(c)) if c else 0, as the fraction <<numerator, denominator>>
average(c) == IF c = <<>> THEN <<0, 1>> ELSE <<Sum(c), Len(c)>>

\* faulty variant of keep_previous: shorter AND smaller instead of OR
keep_previous_both(top, prev) ==
    LET avg_confidence      == average(top.conf)
        prev_avg_confidence == average(prev.char_confidences)
        min_length          == Min(Len(top.plate), Len(prev.plate))
    IN  /\ Len(top.plate) < Len(prev.plate) /\ top.area < prev.area
        /\ avg_confidence[1] * prev_avg_confidence[2]
               <= prev_avg_confidence[1] * avg_confidence[2]
        /\ 2 * Cardinality({i \in 1..min_length :
                               top.conf[i] <= prev.char_confidences[i]})
               >= min_length

\* faulty variant of keep_previous: an equal area counts as smaller
keep_previous_equal_area(top, prev) ==
    LET avg_confidence      == average(top.conf)
        prev_avg_confidence == average(prev.char_confidences)
        min_length          == Min(Len(top.plate), Len(prev.plate))
    IN  /\ Len(top.plate) < Len(prev.plate) \/ top.area <= prev.area
        /\ avg_confidence[1] * prev_avg_confidence[2]
               <= prev_avg_confidence[1] * avg_confidence[2]
        /\ 2 * Cardinality({i \in 1..min_length :
                               top.conf[i] <= prev.char_confidences[i]})
               >= min_length

\* "Define conditions for keeping the previous plate"
keep_previous(top, prev) ==
    LET avg_confidence        == average(top.conf)
        prev_avg_confidence   == average(prev.char_confidences)
        shorter_than_previous == Len(top.plate) < Len(prev.plate)
        lower_avg_confidence  ==
            avg_confidence[1] * prev_avg_confidence[2]
                <= prev_avg_confidence[1] * avg_confidence[2]
        smaller_area          == top.area < prev.area
        min_length            == Min(Len(top.plate), Len(prev.plate))
        char_confidence_comparison ==
            Cardinality({i \in 1..min_length :
                            top.conf[i] <= prev.char_confidences[i]})
        \* char_confidence_comparison >= min_length / 2
        worse_char_confidences == 2 * char_confidence_comparison >= min_length
    IN  /\ (shorter_than_previous \/ smaller_area)
        /\ (lower_avg_confidence /\ worse_char_confidences)

\* faulty variant of below_threshold: no candidate is refused
below_threshold_never(conf) == FALSE

\* faulty variant of below_threshold: an average equal to the threshold
\* is refused
below_threshold_or_equal(conf) ==
    average(conf)[1] <= threshold * average(conf)[2]

\* avg_confidence < self.lpr_config.threshold
below_threshold(conf) == average(conf)[1] < threshold * average(conf)[2]

\* re.match(f"^{plate}$", top_plate)
re_match(pattern, text) ==
    /\ Len(pattern) = Len(text)
    /\ \A i \in 1..Len(text) : pattern[i] = "." \/ pattern[i] = text[i]

\* faulty variant of sub_label_of: the last matching entry wins
sub_label_of_last(top_plate) ==
    LET hits == {k \in 1..Len(known_plates) :
                    \E p \in 1..Len(known_plates[k].plates) :
                        re_match(known_plates[k].plates[p], top_plate)}
    IN  IF hits = {} THEN top_plate
        ELSE known_plates[CHOOSE k \in hits : \A j \in hits : j <= k].label

\* the label of the first known plate with a matching pattern, else the text
sub_label_of(top_plate) ==
    LET hits == {k \in 1..Len(known_plates) :
                    \E p \in 1..Len(known_plates[k].plates) :
                        re_match(known_plates[k].plates[p], top_plate)}
    IN  IF hits = {} THEN top_plate
        ELSE known_plates[CHOOSE k \in hits : \A j \in hits : k <= j].label

\* faulty variant of is_success: the status code is not looked at
is_success_always(status) == TRUE

\* resp.status_code == 200
is_success(status) == status = "200"

\* what the call did: the mapping after it, why it returned, the top
\* candidate it judged (None when it judged none) and the request it sent
Effect(detected, outcome, top, request) ==
    [detected |-> detected, outcome |-> outcome, top |-> top,
     request |-> request]

\* license_plates: what _process_license_plate returned for the frame;
\* status: the answer of requests.post, "ConnectionError" when it raises
process_frame(detected, req_detection, id, obj, license_plates, status) ==
    LET guard == input_guard(detected, req_detection, id, obj)
        top == license_plates[1]
        request == [subLabel      |-> sub_label_of(top.plate),
                    subLabelScore |-> average(top.conf),
                    status        |-> status]
    IN  IF guard # "ok" THEN Effect(detected, guard, None, None)
        ELSE IF license_plates = <<>>
        THEN Effect(detected, "no_text", None, None)
        ELSE IF detected[id] # None /\ keep_previous(top, detected[id])
        THEN Effect(detected, "keep_previous", top, None)
        ELSE IF below_threshold(top.conf)
        THEN Effect(detected, "below_threshold", top, None)
        ELSE IF status = "ConnectionError"
        THEN Effect(detected, "request_raised", top, request)
        ELSE IF is_success(status)
        THEN Effect([detected EXCEPT ![id] =
                        [plate            |-> top.plate,
                         char_confidences |-> top.conf,
                         area             |-> top.area]],
                    "stored", top, request)
        ELSE Effect(detected, "request_failed", top, request)

\* whether the call gets as far as self._detect(image), the first use of a
\* model: past the input guards and past the check of the runners
detect_reached(detected, req_detection, id, obj, r) ==
    /\ input_guard(detected, req_detection, id, obj) = "ok"
    /\ all_runners_loaded(r)

\* faulty variant of expire_object: the whole mapping is cleared
expire_object_clears(detected, object_id) == [i \in DOMAIN detected |-> None]

\* faulty variant of expire_object: the entry is left in the mapping
expire_object_keeps(detected, object_id) == detected

\* self.detected_license_plates.pop(object_id) when the id is in it
expire_object(detected, object_id) ==
    IF detected[object_id] # None
    THEN [detected EXCEPT ![object_id] = None]
    ELSE detected

---------------------------------------------------------------------------
(* The tracker specification: frames and expiry events arrive for a few    *)
(* ids in any order; the models finish loading at any time.                *)

Models == {"detection", "classification", "recognition"}

Statuses == {"200", "500", "ConnectionError"}

Attribute(label, score, box) == [label |-> label, score |-> score, box |-> box]

Box(a) == [area |-> a]

ObjData(label, stationary, sub_label, box, attributes) ==
    [label |-> label, stationary |-> stationary, sub_label |-> sub_label,
     box |-> box, current_attributes |-> attributes]

GoodAttributes == << Attribute("license_plate", 8, Box(6)) >>

\* the object data of a moving car with a plate, and what a frame may lack
\* (an object without a usable plate attribute has no car box either, so
\* that it is skipped whether or not plates are detected internally)
ObjDatas ==
    { ObjData("car", FALSE, "", TRUE, GoodAttributes),
      ObjData("car", FALSE, "plate", TRUE, GoodAttributes),
      ObjData("car", FALSE, "other", TRUE, GoodAttributes),
      ObjData("person", FALSE, "", TRUE, GoodAttributes),
      ObjData("car", TRUE, "", TRUE, GoodAttributes),
      ObjData("car", FALSE, "", FALSE, GoodAttributes),
      ObjData("car", FALSE, "", FALSE, <<>>),
      ObjData("car", FALSE, "", FALSE, << Attribute("face", 9, Box(6)) >>),
      ObjData("car", FALSE, "", FALSE, << Attribute("license_plate", 8, None) >>),
      ObjData("car", FALSE, "", FALSE,
              << Attribute("license_plate", 5, Box(6)),
                 Attribute("license_plate", 8, Box(3)) >>) }

\* the images frames of the tracker specification are made of: a text
\* below the threshold, a text of two characters with the largest area, a
\* text whose average equals the threshold, and two confident texts
FrameImages == {Catalog[i] : i \in {1, 3, 4, 5, 6}}

RECURSIVE FramesOfLen(_)
FramesOfLen(n) ==
    IF n = 0 THEN {<<>>}
    ELSE {Append(f, img) : f \in FramesOfLen(n - 1), img \in FrameImages} \
         {f \in [1..n -> FrameImages] : \E j, k \in 1..n : j # k /\ f[j] = f[k]}

\* the plate images of a frame: up to MaxPlates different ones, any order
Frames == UNION {FramesOfLen(n) : n \in 0..MaxPlates}

\* what _process_license_plate can return for a frame, per state of the
\* runners (computed once).  process_frame reads license_plates[0] only, so
\* of the lists with the same first entry one is kept.
license_plates_of ==
    [r \in [Models -> BOOLEAN] |->
        LET returned  == {process_license_plate(r, f) : f \in Frames}
            first(lp) == IF lp = <<>> THEN None ELSE lp[1]
        IN  {CHOOSE lp \in returned : first(lp) = h :
                h \in {first(lp) : lp \in returned}}] @@ <<>>

Init ==
    /\ detected_license_plates = [i \in Ids |-> None]
    /\ runner = [m \in Models |-> FALSE]
    /\ requires_license_plate_detection \in BOOLEAN
    /\ last = NoCall
    /\ expired = [i \in Ids |-> Never]
    /\ plate_images = <<>>
    /\ classify_out = None
    /\ plate_out = None
    /\ SideInit

\* _load_model_and_utils: a runner is there once its model is downloaded
ModelLoaded(m) ==
    /\ ~runner[m]
    /\ runner' = [runner EXCEPT ![m] = TRUE]
    /\ last' = [NoCall EXCEPT !.op = "load"]
    /\ UNCHANGED <<detected_license_plates, requires_license_plate_detection,
                   expired, pipeline_vars, side_vars>>

\* process_frame for a frame of Frames.  The frame matters only to a call
\* that passes the input guards, the answer of requests.post only to a call
\* that sends the request.
ProcessFrame(id, obj) ==
    \E license_plates \in
        IF input_guard(detected_license_plates,
                       requires_license_plate_detection, id, obj) = "ok"
        THEN license_plates_of[runner] ELSE {<<>>} :
    \E ok \in {process_frame(detected_license_plates,
                             requires_license_plate_detection, id, obj,
                             license_plates, "200")} :
    \E status \in IF ok.request = None THEN {"200"} ELSE Statuses :
    \E e \in {IF status = "200" THEN ok
              ELSE process_frame(detected_license_plates,
                                 requires_license_plate_detection, id, obj,
                                 license_plates, status)} :
        /\ detected_license_plates' = e.detected
        /\ last' = [op |-> "frame", id |-> id, outcome |-> e.outcome,
                    sub_label |-> obj.sub_label,
                    prev |-> detected_license_plates[id],
                    top |-> e.top, request |-> e.request,
                    obj |-> obj,
                    invoked |-> detect_reached(detected_license_plates,
                                    requires_license_plate_detection, id, obj,
                                    runner)]
        /\ expired' = IF e.detected[id] # None
                      THEN [expired EXCEPT ![id] = Never]
                      ELSE expired
        /\ UNCHANGED <<runner, requires_license_plate_detection,
                       pipeline_vars, side_vars>>

ExpireObject(id) ==
    /\ detected_license_plates' = expire_object(detected_license_plates, id)
    /\ expired' = [expired EXCEPT ![id] = [prev |-> detected_license_plates[id]]]
    /\ last' = [NoCall EXCEPT !.op = "expire", !.id = id,
                              !.prev = detected_license_plates[id]]
    /\ UNCHANGED <<runner, requires_license_plate_detection, pipeline_vars,
                   side_vars>>

Next ==
    \/ \E m \in Models : ModelLoaded(m)
    \/ \E id \in Ids, obj \in ObjDatas : ProcessFrame(id, obj)
    \/ \E id \in Ids : ExpireObject(id)

Spec == Init /\ [][Next]_vars

---------------------------------------------------------------------------
(* CTCDecoder.  An output is a sequence of timesteps, each a row of        *)
(* probabilities (in tenths) over the classes 0..NumClasses-1; class 0 is  *)
(* the blank.  np.log(output + 1e-8) is increasing, so the argmax is that  *)
(* of the probabilities, and np.exp gives the probability back.            *)

\* self.characters, cut after its first entries
characters == <<"blank", "0", "1", "2">>

NumClasses == Len(characters)

\* self.char_map = {i: char for i, char in enumerate(self.characters)}
char_map == [i \in 0..(NumClasses - 1) |-> characters[i + 1]]

\* np.argmax of one row: the first class with the largest value
argmax(row) ==
    CHOOSE c \in DOMAIN row :
        /\ \A d \in DOMAIN row : row[d] <= row[c]
        /\ \A d \in DOMAIN row : d < c => row[d] < row[c]

\* best_path = np.argmax(seq_log_probs, axis=1)
best_path_of(out) == List([t \in 1..Len(out) |-> argmax(out[t])], Len(out))

\* the loop over enumerate(best_path), from timestep t on (timesteps from 1)
RECURSIVE merge(_, _, _)
merge(out, best_path, t) ==
    IF t > Len(best_path) THEN [path |-> <<>>, probs |-> <<>>]
    ELSE LET char_index == best_path[t]
             rest       == merge(out, best_path, t + 1)
         IN  IF char_index # 0 /\ (t = 1 \/ char_index # best_path[t - 1])
             THEN [path  |-> <<char_index>> \o rest.path,
                   probs |-> <<out[t][char_index]>> \o rest.probs]
             ELSE rest

\* faulty variant of ctc_decode: compares with the last kept class, so that
\* a blank between two equal classes does not separate them
RECURSIVE merge_kept(_, _, _, _)
merge_kept(out, best_path, t, kept) ==
    IF t > Len(best_path) THEN [path |-> <<>>, probs |-> <<>>]
    ELSE LET char_index == best_path[t]
         IN  IF char_index # 0 /\ char_index # kept
             THEN LET rest == merge_kept(out, best_path, t + 1, char_index)
                  IN  [path  |-> <<char_index>> \o rest.path,
                       probs |-> <<out[t][char_index]>> \o rest.probs]
             ELSE merge_kept(out, best_path, t + 1, kept)

ctc_decode_last_kept(out) ==
    LET merged == merge_kept(out, best_path_of(out), 1, 0)
    IN  [result     |-> List([k \in 1..Len(merged.path) |->
                                 char_map[merged.path[k]]], Len(merged.path)),
         confidence |-> merged.probs]

\* faulty variant of ctc_decode: repeats are not merged
ctc_decode_no_merge(out) ==
    LET best_path == best_path_of(out)
        nonblank  == SelectSeq(List([t \in 1..Len(out) |-> t], Len(out)),
                               LAMBDA t : best_path[t] # 0)
    IN  [result     |-> List([k \in 1..Len(nonblank) |->
                                 char_map[best_path[nonblank[k]]]],
                             Len(nonblank)),
         confidence |-> List([k \in 1..Len(nonblank) |->
                                 out[nonblank[k]][best_path[nonblank[k]]]],
                             Len(nonblank))]

\* CTCDecoder.__call__ for one output of the batch: the text and the
\* confidence of each of its characters
ctc_decode(out) ==
    LET merged == merge(out, best_path_of(out), 1)
    IN  [result     |-> List([k \in 1..Len(merged.path) |->
                                 char_map[merged.path[k]]], Len(merged.path)),
         confidence |-> merged.probs]

\* a row with probability p on class c and the rest spread on the others
Peak(c, p) == [d \in 0..(NumClasses - 1) |-> IF d = c THEN p ELSE 0]

\* the rows a timestep may be: sure of the blank, of "0" (twice, with
\* different probabilities), of "1", and undecided between "0" and "1"
Rows ==
    { Peak(0, 9), Peak(1, 9), Peak(1, 6), Peak(2, 8),
      [d \in 0..(NumClasses - 1) |-> IF d \in {1, 2} THEN 5 ELSE 0] }

\* the recognition model emits one more timestep
Timestep(row) ==
    /\ decoded = None
    /\ Len(output) < MaxSteps
    /\ output' = Append(output, row)
    /\ UNCHANGED <<decoded, calls, geometry_vars, tracker_vars, pipeline_vars,
                 sort_vars, reindex_vars>>

\* self.ctc_decoder(outputs)
CTCDecode ==
    /\ decoded = None
    /\ decoded' = ctc_decode(output)
    /\ UNCHANGED <<output, calls, geometry_vars, tracker_vars, pipeline_vars,
                 sort_vars, reindex_vars>>

DecoderNext ==
    \/ \E row \in Rows : Timestep(row)
    \/ CTCDecode

DecoderSpec == PipeInit /\ [][DecoderNext]_vars

---------------------------------------------------------------------------
(* Calls that overlap.  process_frame holds no lock: between its reading   *)
(* of the entry (the keep-previous block) and its writing of the entry     *)
(* stands requests.post, which blocks while other callers run.  A call is  *)
(* therefore two steps, the comparison and the answer of the request;      *)
(* expire_object is one step.  The calls are for objects that pass the     *)
(* input guards.                                                           *)

\* the top candidates the pipeline can hand to process_frame
TopCandidates == {lp[1] : lp \in license_plates_of[AllLoaded] \ {<<>>}}

\* process_frame is entered; the pipeline returned top as license_plates[0]
BeginFrame(c, id, top) ==
    /\ calls[c].pc \in {"idle", "returned"}
    /\ calls' = [calls EXCEPT ![c] = [pc |-> "compare", id |-> id, top |-> top]]
    /\ UNCHANGED <<tracker_vars, pipeline_vars, decoder_vars, geometry_vars,
                 sort_vars, reindex_vars>>

\* the keep-previous block and the threshold test, on the entry as it is now
Compare(c) ==
    /\ calls[c].pc = "compare"
    /\ LET prev == detected_license_plates[calls[c].id]
           top  == calls[c].top
       IN  calls' = [calls EXCEPT ![c] =
                IF \/ prev # None /\ keep_previous(top, prev)
                   \/ below_threshold(top.conf)
                THEN [pc |-> "returned", id |-> calls[c].id, top |-> top,
                      seen |-> prev, stored |-> FALSE]
                ELSE [pc |-> "post", id |-> calls[c].id, top |-> top,
                      seen |-> prev]]
    /\ UNCHANGED <<tracker_vars, pipeline_vars, decoder_vars, geometry_vars,
                 sort_vars, reindex_vars>>

\* requests.post returns with a status, or raises; the entry is written
\* on 200
Respond(c, status) ==
    /\ calls[c].pc = "post"
    /\ detected_license_plates' =
          IF is_success(status)
          THEN [detected_license_plates EXCEPT ![calls[c].id] =
                   [plate            |-> calls[c].top.plate,
                    char_confidences |-> calls[c].top.conf,
                    area             |-> calls[c].top.area]]
          ELSE detected_license_plates
    /\ calls' = [calls EXCEPT ![c] =
                    [pc |-> "returned", id |-> calls[c].id, top |-> calls[c].top,
                     seen |-> calls[c].seen, stored |-> is_success(status)]]
    /\ UNCHANGED <<runner, requires_license_plate_detection, last, expired,
                   pipeline_vars, decoder_vars, geometry_vars,
                 sort_vars, reindex_vars>>

\* expire_object(id), from a caller that is in no other call
Expire(c, id) ==
    /\ calls[c].pc \in {"idle", "returned"}
    /\ detected_license_plates' = expire_object(detected_license_plates, id)
    /\ calls' = [calls EXCEPT ![c] = Idle]
    /\ UNCHANGED <<runner, requires_license_plate_detection, last, expired,
                   pipeline_vars, decoder_vars, geometry_vars,
                 sort_vars, reindex_vars>>

OverlapNext ==
    \/ \E c \in Callers, id \in Ids, top \in TopCandidates : BeginFrame(c, id, top)
    \/ \E c \in Callers : Compare(c)
    \/ \E c \in Callers, status \in Statuses : Respond(c, status)
    \/ \E c \in Callers, id \in Ids : Expire(c, id)

OverlapSpec == PipeInit /\ [][OverlapNext]_vars

---------------------------------------------------------------------------
(* Geometry: _filter_polygon and _crop_license_plate.  A point is <<x, y>>  *)
(* with integer coordinates; lengths are compared by their squares, and     *)
(* int(norm) is the integer square root.                                    *)

\* np.linalg.norm(a - b) ** 2
NormSq(a, b) == (a[1] - b[1]) * (a[1] - b[1]) + (a[2] - b[2]) * (a[2] - b[2])

\* int(math.sqrt(n)) for n >= 0
ISqrt(n) == CHOOSE r \in 0..n : r * r <= n /\ n < (r + 1) * (r + 1)

Max(a, b) == IF a >= b THEN a ELSE b

\* faulty variant of is_valid_polygon: the upper bounds are allowed
is_valid_polygon_closed(point, width, height) ==
    /\ \A i \in 1..4 : point[i][1] >= 0 /\ point[i][1] <= width
    /\ \A i \in 1..4 : point[i][2] >= 0 /\ point[i][2] <= height
    /\ NormSq(point[1], point[2]) > 9
    /\ NormSq(point[1], point[4]) > 9

\* _is_valid_polygon: inside the image, sides 0-1 and 0-3 longer than 3
is_valid_polygon(point, width, height) ==
    /\ \A i \in 1..4 : point[i][1] >= 0 /\ point[i][1] < width
    /\ \A i \in 1..4 : point[i][2] >= 0 /\ point[i][2] < height
    /\ NormSq(point[1], point[2]) > 9
    /\ NormSq(point[1], point[4]) > 9

\* where np.arctan2(y, x) lies: 0 for (-pi, 0), 1 for 0 (also for x = y = 0),
\* 2 for (0, pi), 3 for pi
arc(v) ==
    IF v[2] < 0 THEN 0
    ELSE IF v[2] > 0 THEN 2
    ELSE IF v[1] >= 0 THEN 1 ELSE 3

\* np.arctan2(u[2], u[1]) < np.arctan2(v[2], v[1])
AngleLess(u, v) ==
    \/ arc(u) < arc(v)
    \/ arc(u) = arc(v) /\ arc(u) \in {0, 2} /\ u[1] * v[2] - u[2] * v[1] > 0

\* _clockwise_order: the points sorted by their angle around the mean of
\* the four (the differences are taken times 4 to stay in the integers);
\* points of equal angle keep their order
clockwise_order(point) ==
    LET sx == point[1][1] + point[2][1] + point[3][1] + point[4][1]
        sy == point[1][2] + point[2][2] + point[3][2] + point[4][2]
        d(i) == <<4 * point[i][1] - sx, 4 * point[i][2] - sy>>
        before(j, k) == \/ AngleLess(d(j), d(k))
                        \/ (~AngleLess(d(k), d(j)) /\ j < k)
        rank(k) == 1 + Cardinality({j \in 1..4 : j # k /\ before(j, k)})
    IN  List([p \in 1..4 |-> point[CHOOSE k \in 1..4 : rank(k) = p]], 4)

\* _filter_polygon for a list of one polygon: the list of the polygons
\* kept, each in clockwise order
filter_polygon(point, width, height) ==
    IF is_valid_polygon(point, width, height)
    THEN [polygons |-> <<clockwise_order(point)>>]
    ELSE [polygons |-> <<>>]

\* what cv2.warpPerspective can do for the size dsize = <<width, height>>
\* it is asked for: an image of that size; for a size with a zero in it the
\* library decides, it raises or it falls back to the size of its input
warp_perspective(dsize, src_size) ==
    IF dsize[1] >= 1 /\ dsize[2] >= 1
    THEN {[raised |-> FALSE, shape |-> dsize]}
    ELSE {[raised |-> TRUE, shape |-> <<0, 0>>],
          [raised |-> FALSE, shape |-> src_size]}

\* the sizes _crop_license_plate computes from the four points
crop_size(pts) ==
    [crop_width  |-> ISqrt(Max(NormSq(pts[1], pts[2]), NormSq(pts[3], pts[4]))),
     crop_height |-> ISqrt(Max(NormSq(pts[1], pts[4]), NormSq(pts[2], pts[3])))]

\* _crop_license_plate, given what cv2.warpPerspective did: the computed
\* sizes and the shape of the image returned, turned by np.rot90 when
\* height / width >= 1.5
crop_license_plate(pts, warped) ==
    LET size == crop_size(pts)
        rot  == 2 * warped.shape[2] >= 3 * warped.shape[1]
    IN  [crop_width  |-> size.crop_width,
         crop_height |-> size.crop_height,
         raised      |-> warped.raised,
         width  |-> IF warped.raised THEN 0
                    ELSE IF rot THEN warped.shape[2] ELSE warped.shape[1],
         height |-> IF warped.raised THEN 0
                    ELSE IF rot THEN warped.shape[1] ELSE warped.shape[2]]

\* np.clip(v, lo, hi)
clip(v, lo, hi) == IF v < lo THEN lo ELSE IF v > hi THEN hi ELSE v

\* what np.round(box / width * dest_width) can be for a corner: a value
\* below the frame, in it, on its upper bound or above it
Rounded == ((-1)..(FrameWidth + 1)) \X ((-1)..(FrameHeight + 1))

\* _boxes_from_bitmap hands over a polygon, corner by corner, each
\* coordinate clipped to [0, dest_width] and [0, dest_height]
Corner(p) ==
    /\ Len(points) < 4
    /\ points' = Append(points, <<clip(p[1], 0, FrameWidth),
                                  clip(p[2], 0, FrameHeight)>>)
    /\ UNCHANGED <<filtered, cropped, tracker_vars, pipeline_vars,
                   decoder_vars, calls,
                   sort_vars, reindex_vars>>

\* self._filter_polygon(boxes, (h, w)): a polygon that is not valid is
\* left out of the list
FilterPolygon ==
    /\ Len(points) = 4
    /\ filtered = None
    /\ filtered' = filter_polygon(points, FrameWidth, FrameHeight)
    /\ UNCHANGED <<points, cropped, tracker_vars, pipeline_vars,
                   decoder_vars, calls,
                   sort_vars, reindex_vars>>

\* self._crop_license_plate(image, x) for a polygon that was kept
CropLicensePlate ==
    /\ filtered # None
    /\ Len(filtered.polygons) = 1
    /\ cropped = None
    /\ \E warped \in warp_perspective(
                        <<crop_size(filtered.polygons[1]).crop_width,
                          crop_size(filtered.polygons[1]).crop_height>>,
                        <<FrameWidth, FrameHeight>>) :
          cropped' = crop_license_plate(filtered.polygons[1], warped)
    /\ UNCHANGED <<points, filtered, tracker_vars, pipeline_vars,
                   decoder_vars, calls,
                   sort_vars, reindex_vars>>

GeometryNext ==
    \/ \E p \in Rounded : Corner(p)
    \/ FilterPolygon
    \/ CropLicensePlate

GeometrySpec == PipeInit /\ [][GeometryNext]_vars

---------------------------------------------------------------------------
(* The ordering of the detected polygons, _sort_polygon (l.491-514).  A    *)
(* polygon is a sequence of points, a point is <<x, y>>; the code reads    *)
(* only the first point of each polygon (x[0] in the source, polygon[1]    *)
(* here), so the three other corners, which it carries along unread, are   *)
(* left out of the sequences.                                              *)

\* l.506: the vertical distance under which two polygons are on one line
band == 10

MaxPolygons == 3
MaxX == 2
MaxY == 10

Abs(v) == IF v < 0 THEN 0 - v ELSE v

\* l.504: the key (x[0][1], x[0][0]), compared as Python compares tuples
sort_key_less(a, b) ==
    \/ a[1][2] < b[1][2]
    \/ a[1][2] = b[1][2] /\ a[1][1] < b[1][1]

\* l.504: points.sort(key=...), a stable sort: an element goes after every
\* earlier element whose key is not greater
RECURSIVE list_sort(_)
list_sort(pts) ==
    IF pts = <<>> THEN <<>>
    ELSE LET n == Len(pts)
             front == list_sort(SubSeq(pts, 1, n - 1))
             k == Cardinality({i \in 1..(n - 1) :
                                  ~sort_key_less(pts[n], front[i])})
         IN  SubSeq(front, 1, k) \o <<pts[n]>> \o SubSeq(front, k + 1, n - 1)

\* l.506-508 without the distance test
swap_test_any_distance(pts, j) ==
    pts[j + 1][1][1] < pts[j][1][1]

\* l.506-508: the test of the inner loop, on the neighbours j and j + 1
swap_test(pts, j) ==
    /\ Abs(pts[j + 1][1][2] - pts[j][1][2]) < band
    /\ pts[j + 1][1][1] < pts[j][1][1]

\* l.509-511
swap(pts, j) ==
    [pts EXCEPT ![j] = pts[j + 1], ![j + 1] = pts[j]]

\* l.505-513: for j in range(i, -1, -1), with its break
RECURSIVE inner_loop(_, _)
inner_loop(pts, j) ==
    IF j < 1 THEN pts
    ELSE IF swap_test(pts, j) THEN inner_loop(swap(pts, j), j - 1)
    ELSE pts

\* l.505: for i in range(len(points) - 1)
RECURSIVE outer_loop(_, _)
outer_loop(pts, i) ==
    IF i > Len(pts) - 1 THEN pts
    ELSE outer_loop(inner_loop(pts, i), i + 1)

\* l.504 alone, without the loops of l.505-513
sort_polygon_key_only(pts) == list_sort(pts)

sort_polygon(pts) == outer_loop(list_sort(pts), 1)

FirstPoints == (0..MaxX) \X (0..MaxY)

\* l.208: _detect returns one more polygon
Detected(p) ==
    /\ sorted_points = None
    /\ Len(plate_points) < MaxPolygons
    /\ plate_points' = Append(plate_points, <<p>>)
    /\ UNCHANGED <<sorted_points, tracker_vars, pipeline_vars, decoder_vars,
                   calls, geometry_vars, reindex_vars>>

\* l.209-212: the call of _sort_polygon on what _detect returned
SortPolygon ==
    /\ sorted_points = None
    /\ Len(plate_points) > 0
    /\ sorted_points' = [points |-> sort_polygon(plate_points)]
    /\ UNCHANGED <<plate_points, tracker_vars, pipeline_vars, decoder_vars,
                   calls, geometry_vars, reindex_vars>>

SortNext ==
    \/ \E p \in FirstPoints : Detected(p)
    \/ SortPolygon

SortSpec == PipeInit /\ [][SortNext]_vars

---------------------------------------------------------------------------
(* Embeddings.reindex of frigate/embeddings/embeddings.py (l.252-360).     *)
(* The events that match the query are taken to be the same for the count  *)
(* of l.267-274 and for every page of the run.  Of the progress dictionary *)
(* the model keeps the counters of events and the status; "descriptions"   *)
(* depends on the data of the events and "time_remaining" on the clock,    *)
(* and neither is read back into a counter.  A report is the dictionary    *)
(* as it is when send_data is called.                                      *)

\* l.276: batch_size = 32 (the name batch_size is that of the classifier
\* batches above)
reindex_batch_size == 32

MaxEvents == 70

\* l.290-298, l.342-350: len(events) for a page of the matching events
page_length(n, page) ==
    IF n <= reindex_batch_size * (page - 1) THEN 0
    ELSE IF n - reindex_batch_size * (page - 1) > reindex_batch_size
    THEN reindex_batch_size
    ELSE n - reindex_batch_size * (page - 1)

\* l.279-286: the dictionary before the first report
initial_totals(n) ==
    [thumbnails        |-> 0,
     processed_objects |-> IF n < reindex_batch_size THEN n - 1 ELSE 0,
     total_objects     |-> n,
     status            |-> "indexing"]

\* l.304-312: the loop over the events of one page
after_batch(t, k) ==
    [t EXCEPT !.thumbnails = @ + k, !.processed_objects = @ + k]

\* whether a run of reindex is between its first and its last report
indexing(t) == IF t = None THEN FALSE ELSE t.status = "indexing"

\* l.252-298: reindex is called while n events match; the first report
ReindexStart(n) ==
    /\ ~indexing(totals)
    /\ total_events' = n
    /\ current_page' = 1
    /\ totals' = initial_totals(n)
    /\ sent' = <<initial_totals(n)>>
    /\ UNCHANGED <<tracker_vars, pipeline_vars, decoder_vars, calls,
                   geometry_vars, sort_vars>>

\* l.300-350: one pass of the while loop, with its report
ReindexBatch ==
    /\ indexing(totals)
    /\ page_length(total_events, current_page) > 0
    /\ totals' = after_batch(totals, page_length(total_events, current_page))
    /\ sent' = Append(sent, totals')
    /\ current_page' = current_page + 1
    /\ UNCHANGED <<total_events, tracker_vars, pipeline_vars, decoder_vars,
                   calls, geometry_vars, sort_vars>>

\* l.352-360: the loop has ended; the last report
ReindexCompleted ==
    /\ indexing(totals)
    /\ page_length(total_events, current_page) = 0
    /\ totals' = [totals EXCEPT !.status = "completed"]
    /\ sent' = Append(sent, totals')
    /\ UNCHANGED <<total_events, current_page, tracker_vars, pipeline_vars,
                   decoder_vars, calls, geometry_vars, sort_vars>>

ReindexNext ==
    \/ \E n \in 0..MaxEvents : ReindexStart(n)
    \/ ReindexBatch
    \/ ReindexCompleted

ReindexSpec == PipeInit /\ [][ReindexNext]_vars

---------------------------------------------------------------------------
(* Claims about the tracker (checked under Spec).  A step is a call of     *)
(* process_frame for id i when last'.op = "frame" and last'.id = i; the    *)
(* candidate it judged is last'.top, the request it sent last'.request.    *)

\* the average of a is at most that of b
AvgLeq(a, b) == Sum(a) * Len(b) <= Sum(b) * Len(a)

\* the average of a is at least the acceptance threshold
AvgAtLeastThreshold(a) == Sum(a) >= threshold * Len(a)

\* the keep-previous rule as the specification words it
RuleRejects(cand, stored) ==
    LET n == Min(Len(cand.plate), Len(stored.plate))
    IN  /\ \/ Len(cand.plate) < Len(stored.plate)
           \/ cand.area < stored.area
        /\ AvgLeq(cand.conf, stored.char_confidences)
        /\ 2 * Cardinality({i \in 1..n :
                               cand.conf[i] <= stored.char_confidences[i]}) >= n

EntryOf(cand) ==
    [plate |-> cand.plate, char_confidences |-> cand.conf, area |-> cand.area]

Judged(i) == last'.op = "frame" /\ last'.id = i /\ last'.top # None

\* C1: when process_frame runs for an id with a stored plate and the top
\* candidate is (shorter or smaller in area) and (average confidence not
\* higher and at least half of the overlapping positions not higher), the
\* stored entry is unchanged and no label-update request is sent.
C1_KeepPrevious ==
    [][\A i \in Ids :
          ( /\ Judged(i)
            /\ detected_license_plates[i] # None
            /\ RuleRejects(last'.top, detected_license_plates[i]) )
          => /\ detected_license_plates'[i] = detected_license_plates[i]
             /\ last'.request = None]_vars

C1_Witness ==
    /\ last.op = "frame"
    /\ last.top # None
    /\ last.prev # None
    /\ RuleRejects(last.top, last.prev)
    /\ AvgAtLeastThreshold(last.top.conf)
    /\ detected_license_plates[last.id] = last.prev
    /\ last.request = None

\* C2: for an id with no stored plate and a top candidate that passed the
\* input guards, the request is sent iff the average confidence is at or
\* above the threshold; the request carries that average as score and a
\* label that is a known label or the text; after a successful response the
\* stored entry is exactly the candidate.
C2_FreshAcceptance ==
    [][\A i \in Ids :
          (Judged(i) /\ detected_license_plates[i] = None)
          => /\ (last'.request # None) <=> AvgAtLeastThreshold(last'.top.conf)
             /\ last'.request # None =>
                  /\ last'.request.subLabelScore =
                         <<Sum(last'.top.conf), Len(last'.top.conf)>>
                  /\ \/ last'.request.subLabel = last'.top.plate
                     \/ \E k \in 1..Len(known_plates) :
                           last'.request.subLabel = known_plates[k].label
             /\ IF last'.request # None /\ last'.request.status = "200"
                THEN detected_license_plates'[i] = EntryOf(last'.top)
                ELSE detected_license_plates'[i] = None]_vars

\* accepted with an average equal to the threshold
C2_Witness ==
    /\ last.op = "frame"
    /\ last.prev = None
    /\ last.request # None
    /\ last.request.status = "200"
    /\ Sum(last.top.conf) = threshold * Len(last.top.conf)
    /\ detected_license_plates[last.id] = EntryOf(last.top)

\* C3 as claimed: when an id has a stored plate and the top candidate is
\* not rejected by the keep-previous rule, then with an average at or above
\* the threshold the stored entry is replaced by the candidate and a request
\* is sent, and below the threshold the entry is unchanged and no request
\* is sent.
C3_Replacement_AsClaimed ==
    [][\A i \in Ids :
          ( /\ Judged(i)
            /\ detected_license_plates[i] # None
            /\ ~RuleRejects(last'.top, detected_license_plates[i]) )
          => IF AvgAtLeastThreshold(last'.top.conf)
             THEN /\ last'.request # None
                  /\ detected_license_plates'[i] = EntryOf(last'.top)
             ELSE /\ last'.request = None
                  /\ detected_license_plates'[i] = detected_license_plates[i]]_vars

\* C3 amended: ... with an average at or above the threshold a request is
\* sent and, if its response is a success, the stored entry is replaced by
\* the candidate (otherwise it is unchanged); below the threshold the entry
\* is unchanged and no request is sent.
C3_Replacement ==
    [][\A i \in Ids :
          ( /\ Judged(i)
            /\ detected_license_plates[i] # None
            /\ ~RuleRejects(last'.top, detected_license_plates[i]) )
          => IF AvgAtLeastThreshold(last'.top.conf)
             THEN /\ last'.request # None
                  /\ detected_license_plates'[i] =
                        IF last'.request.status = "200"
                        THEN EntryOf(last'.top)
                        ELSE detected_license_plates[i]
             ELSE /\ last'.request = None
                  /\ detected_license_plates'[i] = detected_license_plates[i]]_vars

\* a stored plate replaced by a different candidate
C3_Witness ==
    /\ last.op = "frame"
    /\ last.prev # None
    /\ last.top # None
    /\ ~RuleRejects(last.top, last.prev)
    /\ last.request # None
    /\ last.request.status = "200"
    /\ detected_license_plates[last.id] = EntryOf(last.top)
    /\ detected_license_plates[last.id] # last.prev

\* C4: if the request for an id gets a non-success response, the entry of
\* the id is what it was before the frame, and a frame that follows with
\* the same candidate for the same id sends the request again.
C4_FailureKeepsState ==
    [][\A i \in Ids :
          /\ ( /\ Judged(i)
               /\ last'.request # None
               /\ last'.request.status # "200" )
             => detected_license_plates'[i] = detected_license_plates[i]
          /\ ( /\ last.op = "frame" /\ last.id = i
               /\ last.request # None
               /\ last.request.status # "200"
               /\ Judged(i)
               /\ last'.top = last.top )
             => last'.request # None]_vars

\* the request for a replacement failed and the old plate is still stored
C4_Witness ==
    /\ last.op = "frame"
    /\ last.request # None
    /\ last.request.status = "500"
    /\ last.prev # None
    /\ EntryOf(last.top) # last.prev
    /\ detected_license_plates[last.id] = last.prev

\* C5: after expire_object(id), a candidate processed for that id before a
\* plate is stored for it again is judged on the fresh path alone: the
\* request is sent iff its average is at or above the threshold, whatever
\* plate was stored before the expiry, and a success stores the candidate.
C5_ExpiryResets ==
    [][\A i \in Ids :
          (Judged(i) /\ expired[i] # Never)
          => /\ (last'.request # None) <=> AvgAtLeastThreshold(last'.top.conf)
             /\ (last'.request # None /\ last'.request.status = "200")
                  => detected_license_plates'[i] = EntryOf(last'.top)]_vars

\* a candidate the keep-previous rule rejects against the plate stored
\* before the expiry has been sent for the expired id
C5_Witness ==
    /\ last.op = "frame"
    /\ last.top # None
    /\ last.prev = None
    /\ expired[last.id] # Never
    /\ expired[last.id].prev # None
    /\ RuleRejects(last.top, expired[last.id].prev)
    /\ last.request # None

\* C6 as claimed: once expire_object(id) has been received, no later
\* process_frame call for that id stores a plate or sends a request.
C6_NoAcceptanceAfterExpiry_AsClaimed ==
    [][\A i \in Ids :
          (last'.op = "frame" /\ last'.id = i /\ expired[i] # Never)
          => /\ last'.request = None
             /\ detected_license_plates'[i] = detected_license_plates[i]]_vars

\* C6 amended: once expire_object(id) has been received the id has no
\* entry, and until a plate is stored for it again a later process_frame
\* call for that id stores a plate or sends a request only on the fresh
\* path: its object data carries no sub label and the top candidate's
\* average confidence is at or above the threshold.
C6_NoAcceptanceAfterExpiry ==
    [][\A i \in Ids :
          /\ (last'.op = "expire" /\ last'.id = i)
                => detected_license_plates'[i] = None
          /\ (last'.op = "frame" /\ last'.id = i /\ expired[i] # Never)
                => \/ /\ last'.request = None
                      /\ detected_license_plates'[i] = None
                   \/ /\ last'.sub_label = ""
                      /\ last'.top # None
                      /\ AvgAtLeastThreshold(last'.top.conf)
                      /\ last'.request # None
                      /\ detected_license_plates'[i]
                            \in {None, EntryOf(last'.top)}]_vars

\* a frame with a sub label for an id whose plate has expired was skipped
C6_Witness ==
    /\ last.op = "frame"
    /\ last.sub_label # ""
    /\ expired[last.id] # Never
    /\ expired[last.id].prev # None
    /\ last.top = None
    /\ detected_license_plates[last.id] = None

\* over every frame: no ranked text is shorter than 3, and a frame whose
\* texts are all shorter than 3 is ranked as the empty list
ShortTextsAreDropped ==
    \A f \in Frames :
        LET ranked == process_license_plate(AllLoaded, f)
        IN  /\ \A k \in 1..Len(ranked) :
                  Len(ranked[k].plate) >= MIN_PLATE_LENGTH
            /\ (\A k \in 1..Len(f) : Len(f[k].text) < MIN_PLATE_LENGTH)
                  => ranked = <<>>

\* C7: a text shorter than 3 characters is never the top candidate, never
\* sent and never stored; a frame whose texts are all shorter than 3 yields
\* no candidate, and a call that got no candidate changes no entry.
C7_MinimumLength ==
    /\ \A i \in Ids :
          detected_license_plates[i] # None
              => Len(detected_license_plates[i].plate) >= MIN_PLATE_LENGTH
    /\ last.top # None => Len(last.top.plate) >= MIN_PLATE_LENGTH
    /\ ShortTextsAreDropped
    /\ (last.op = "frame" /\ last.top = None)
          => /\ last.request = None
             /\ detected_license_plates[last.id] = last.prev

\* a frame in which every text was too short left the stored plate alone
C7_Witness ==
    /\ last.op = "frame"
    /\ last.outcome = "no_text"
    /\ last.top = None
    /\ last.prev # None
    /\ last.request = None
    /\ detected_license_plates[last.id] = last.prev

\* the attributes of the object that are license plates with the highest
\* score among them
TopPlateAttributes(obj) ==
    {k \in 1..Len(obj.current_attributes) :
        /\ obj.current_attributes[k].label = "license_plate"
        /\ \A j \in 1..Len(obj.current_attributes) :
              obj.current_attributes[j].label = "license_plate"
                  => obj.current_attributes[j].score
                         <= obj.current_attributes[k].score}

\* the object is one the claim C14 lists: not a car, stationary, without
\* car box (internal detection), without plate attribute, or with a plate
\* box that is missing or too small (plates detected upstream)
Skippable(internal, obj) ==
    \/ obj.label # "car"
    \/ obj.stationary
    \/ internal /\ ~obj.box
    \/ ~internal /\ TopPlateAttributes(obj) = {}
    \/ ~internal /\ \E k \in TopPlateAttributes(obj) :
                       \/ obj.current_attributes[k].box = None
                       \/ obj.current_attributes[k].box.area < min_area

\* the object passes every input guard of process_frame
PassesGuards(internal, obj, entry) ==
    /\ ~Skippable(internal, obj)
    /\ obj.sub_label = "" \/ entry # None

SomeRunnerMissing == \E m \in Models : ~runner[m]

\* C13: if a runner is not loaded when process_frame reaches the pipeline,
\* the pipeline returns no candidate for any frame without reaching a
\* model, no request is sent, the mapping is unchanged and the call
\* returns normally.
C13_ModelNotReady ==
    [][\A i \in Ids :
          ( /\ last'.op = "frame" /\ last'.id = i
            /\ PassesGuards(requires_license_plate_detection, last'.obj,
                            detected_license_plates[i])
            /\ SomeRunnerMissing )
          => /\ \A f \in Frames : process_license_plate(runner, f) = <<>>
             /\ ~last'.invoked
             /\ last'.top = None
             /\ last'.request = None
             /\ last'.outcome = "no_text"
             /\ detected_license_plates' = detected_license_plates]_vars

\* a frame of a moving car reached the pipeline while the recognition
\* runner was still missing
C13_Witness ==
    /\ last.op = "frame"
    /\ last.obj # None
    /\ PassesGuards(requires_license_plate_detection, last.obj, last.prev)
    /\ runner["detection"] /\ runner["classification"]
    /\ ~runner["recognition"]
    /\ last.outcome = "no_text"
    /\ ~last.invoked

C15_OtherSubLabelKept ==
    [][( /\ last'.op = "frame"
         /\ last'.obj.sub_label = "other" )
       => last'.request = None]_vars

\* the pattern matches the whole text
MatchesWhole(pattern, text) ==
    /\ Len(pattern) = Len(text)
    /\ \A i \in 1..Len(pattern) : pattern[i] \in {".", text[i]}

\* entry k of the configuration has a pattern that matches the whole text
EntryMatches(k, text) ==
    \E p \in 1..Len(known_plates[k].plates) :
        MatchesWhole(known_plates[k].plates[p], text)

GivenPlates == IF last'.top = None THEN <<>> ELSE <<last'.top>>
GivenStatus == IF last'.request = None THEN "200" ELSE last'.request.status

\* C18: process_frame for id A and expire_object(A) do not create, change
\* or remove the entry of another id B, and what process_frame does for A
\* is the same whatever the entry of B is.
C18_IdsIndependent ==
    [][last'.op \in {"frame", "expire"} =>
          \A b \in Ids \ {last'.id} :
              /\ detected_license_plates'[b] = detected_license_plates[b]
              /\ last'.op = "frame" =>
                    \A other \in {None, detected_license_plates[last'.id]} :
                    \A without \in
                        {process_frame(
                             [detected_license_plates EXCEPT ![b] = other],
                             requires_license_plate_detection, last'.id,
                             last'.obj, GivenPlates, GivenStatus)} :
                        /\ without.detected[last'.id]
                               = detected_license_plates'[last'.id]
                        /\ without.request = last'.request
                        /\ without.outcome = last'.outcome]_vars

\* an id expired, or got a new plate, while another id kept its plate
C18_Witness ==
    /\ last.op \in {"frame", "expire"}
    /\ last.prev # None
    /\ detected_license_plates[last.id] # last.prev
    /\ \E b \in Ids \ {last.id} : detected_license_plates[b] # None

\* C19: when the request fails, by a non-success response or by not
\* completing, process_frame returns normally: no error leaves the call.
C19_NoFailureEscapes ==
    (last.op = "frame" /\ last.request # None /\ last.request.status # "200")
        => last.outcome = "request_failed"

\* C25: after any sequence of process_frame and expire_object calls and any
\* answers to the requests, every entry of the mapping has an average
\* confidence of at least the threshold, and an entry appears or changes
\* only in a call of process_frame for its id whose request was answered
\* with success.
C25_StoredPlateInvariant ==
    [][\A i \in Ids :
          detected_license_plates'[i] # None =>
              /\ AvgAtLeastThreshold(detected_license_plates'[i].char_confidences)
              /\ detected_license_plates'[i] # detected_license_plates[i] =>
                    /\ last'.op = "frame" /\ last'.id = i
                    /\ last'.request # None
                    /\ last'.request.status = "200"]_vars

\* a call has just stored a candidate whose average is the threshold, for
\* an id that had an entry, while the other id keeps the entry of an
\* earlier call
C25_Witness ==
    /\ last.op = "frame" /\ last.outcome = "stored"
    /\ last.prev # None
    /\ detected_license_plates[last.id] = EntryOf(last.top)
    /\ Sum(last.top.conf) = threshold * Len(last.top.conf)
    /\ \E i \in Ids : i # last.id /\ detected_license_plates[i] # None

---------------------------------------------------------------------------
(* Claims about the decoder (checked under DecoderSpec) *)

\* the k-th smallest timestep of the set K
Nth(K, k) == CHOOSE t \in K : Cardinality({u \in K : u <= t}) = k

\* the characters of the timesteps K of a path, in time order
TextOf(path, K) ==
    List([k \in 1..Cardinality(K) |-> char_map[path[Nth(K, k)]]], Cardinality(K))

\* the timesteps kept when a class is compared with the class of the
\* timestep kept last
RECURSIVE KeptAgainstLastKept(_, _)
KeptAgainstLastKept(path, t) ==
    IF t = 0 THEN {}
    ELSE LET K == KeptAgainstLastKept(path, t - 1)
         IN  IF /\ path[t] # 0
                /\ (K = {} \/ path[t] # path[Nth(K, Cardinality(K))])
             THEN K \cup {t} ELSE K

\* the timesteps kept when a class is compared with the class of the
\* timestep right before it
KeptAgainstPrevious(path) ==
    {t \in 1..Len(path) : path[t] # 0 /\ (t = 1 \/ path[t] # path[t - 1])}

\* C11 as claimed: the decoder keeps the class of a timestep iff it is not
\* the blank and differs from the class of the previous kept timestep, and
\* the text is the concatenation of the kept classes.
C11_CollapseRule_AsClaimed ==
    decoded # None =>
        decoded.result =
            TextOf(best_path_of(output),
                   KeptAgainstLastKept(best_path_of(output), Len(output)))

\* C11 amended: the decoder keeps the class of a timestep iff it is not the
\* blank and differs from the class of the timestep right before it (blank
\* or not); the text is the concatenation of the kept classes and the
\* confidences are the probabilities of the kept timesteps.
C11_CollapseRule ==
    decoded # None =>
        LET path == best_path_of(output)
            K    == KeptAgainstPrevious(path)
        IN  /\ decoded.result = TextOf(path, K)
            /\ Len(decoded.confidence) = Cardinality(K)
            /\ \A k \in 1..Cardinality(K) :
                  decoded.confidence[k] = output[Nth(K, k)][path[Nth(K, k)]]

\* a class, the blank and the same class again were decoded to two characters
C11_Witness ==
    /\ decoded # None
    /\ \E t \in 1..(Len(output) - 2) :
          LET path == best_path_of(output)
          IN  /\ path[t] # 0
              /\ path[t + 1] = 0
              /\ path[t + 2] = path[t]
              /\ {t, t + 2} \subseteq KeptAgainstPrevious(path)
    /\ Len(decoded.result) >= 2

\* the path is made of runs of one class, any two runs separated by blanks
IsRuns(path) ==
    \A t \in 1..(Len(path) - 1) :
        (path[t] # 0 /\ path[t + 1] # 0) => path[t] = path[t + 1]

\* the timesteps at which a run begins
RunStarts(path) ==
    {t \in 1..Len(path) : path[t] # 0 /\ (t = 1 \/ path[t - 1] = 0)}

\* C12: for an argmax path made of runs of identical non-blank classes
\* separated by at least one blank, the decoder returns exactly one
\* character per run, in run order, and one confidence per character.
C12_RoundTrip ==
    (decoded # None /\ IsRuns(best_path_of(output))) =>
        LET path == best_path_of(output)
            R    == RunStarts(path)
        IN  /\ Len(decoded.result) = Cardinality(R)
            /\ \A k \in 1..Cardinality(R) :
                  decoded.result[k] = characters[path[Nth(R, k)] + 1]
            /\ Len(decoded.confidence) = Len(decoded.result)

\* blank, a run of two, blank, a run of one: two characters, two confidences
C12_Witness ==
    /\ decoded # None
    /\ Len(output) = MaxSteps
    /\ IsRuns(best_path_of(output))
    /\ LET path == best_path_of(output)
       IN  /\ path[1] = 0
           /\ Cardinality(RunStarts(path)) = 2
           /\ \E t \in RunStarts(path) : path[t + 1] = path[t]
    /\ Len(decoded.result) = 2
    /\ Len(decoded.confidence) = 2

---------------------------------------------------------------------------
(* Claims about overlapping calls (checked under OverlapSpec) *)

\* C17: updates of one id are serialized: the entry a call of process_frame
\* overwrites is the entry that call compared its candidate with; so no
\* plate is stored after an expiry on the basis of a comparison made before
\* it, and no candidate is stored without having been compared with the
\* entry it overwrites.
C17_SameIdSerialized ==
    [][\A c \in Callers :
          ( /\ calls[c].pc = "post"
            /\ calls'[c].pc = "returned"
            /\ calls'[c].stored )
          => detected_license_plates[calls[c].id] = calls[c].seen]_vars

---------------------------------------------------------------------------
(* Claims about the geometry (checked under GeometrySpec) *)

---------------------------------------------------------------------------
(* Claims about the pipeline (checked under PipeSpec) *)

\* a's average confidence is below b's: sum(a)/len(a) < sum(b)/len(b)
AvgLess(a, b) == Sum(a) * Len(b) < Sum(b) * Len(a)

\* y ranks strictly above x: larger area, else longer text, else higher
\* average confidence
RanksAbove(y, x) ==
    \/ y.area > x.area
    \/ /\ y.area = x.area
       /\ \/ Len(y.plate) > Len(x.plate)
          \/ /\ Len(y.plate) = Len(x.plate)
             /\ AvgLess(x.conf, y.conf)

\* C8: the list _process_license_plate returns is sorted descending by pixel
\* area, then by text length, then by average character confidence: no
\* candidate is placed after one that it ranks strictly above.
C8_RankedByAreaLengthAverage ==
    plate_out # None =>
        \A p, q \in 1..Len(plate_out.ranked) :
            p < q => ~RanksAbove(plate_out.ranked[q], plate_out.ranked[p])

\* C9: for 1 <= N <= batch_size images with distinct ratios, in any order,
\* slot k holds the text and the confidences the recognizer produced from
\* image k together with the pixel area of image k.
C9_RecognitionRoundTrip ==
    (plate_out # None /\ Len(plate_images) <= batch_size) =>
        \A k \in 1..Len(plate_images) :
            /\ plate_out.mapped[k].plate = plate_images[k].text
            /\ plate_out.mapped[k].conf = plate_images[k].conf
            /\ plate_out.mapped[k].area = plate_images[k].w * plate_images[k].h

\* C10: for any N >= 1 images with distinct ratios, the (label, score) at
\* position k is the orientation model's output for image k, image k is
\* turned by 180 degrees exactly when that output is "180" with a score at
\* or above the threshold, and the images come back in the input order.
C10_ClassificationRoundTrip ==
    classify_out # None =>
        \A k \in 1..Len(plate_images) :
            /\ classify_out.results[k] = plate_images[k].cls
            /\ classify_out.images[k] =
                 IF /\ plate_images[k].cls[1] = "180"
                    /\ plate_images[k].cls[2] >= threshold
                 THEN rotate(plate_images[k]) ELSE plate_images[k]

\* C21: for any number N >= 1 of plate images, also N above the batch size,
\* _classify gives all N images to the orientation model and _recognize
\* gives all N to the recognition model, so that each stage has one output
\* per input image.
C21_EveryImageReachesModel ==
    /\ classify_out # None =>
          Len(classification_model(
                  norm_images_after_loop(plate_images, argsort(plate_images))))
              = Len(plate_images)
    /\ plate_out # None =>
          Len(recognize(classify(plate_images).images).results)
              = Len(plate_images)

\* C22: every quadrilateral _filter_polygon returns for the boxes of
\* _boxes_from_bitmap has every x in [0, width) and every y in [0, height),
\* although the boxes are clipped to [0, width] and [0, height]; a box that
\* touches an upper bound is dropped, and that is no error.
C22_QuadrilateralBounds ==
    filtered # None =>
        /\ \A q \in 1..Len(filtered.polygons) : \A i \in 1..4 :
              /\ 0 <= filtered.polygons[q][i][1]
              /\ filtered.polygons[q][i][1] < FrameWidth
              /\ 0 <= filtered.polygons[q][i][2]
              /\ filtered.polygons[q][i][2] < FrameHeight
        /\ (\E i \in 1..4 : \/ points[i][1] = FrameWidth
                            \/ points[i][2] = FrameHeight)
              => filtered.polygons = <<>>

\* a box with sides long enough and a corner on the upper bound was dropped
C22_Witness ==
    /\ filtered # None
    /\ filtered.polygons = <<>>
    /\ NormSq(points[1], points[2]) > 9
    /\ NormSq(points[1], points[4]) > 9
    /\ \E i \in 1..4 : points[i][1] = FrameWidth

---------------------------------------------------------------------------
(* Claims about the ordering of the polygons (checked under SortSpec).     *)

\* the first point of the polygon at place i of the returned list
First(i) == sorted_points.points[i][1]

Count(pts, e) == Cardinality({i \in 1..Len(pts) : pts[i] = e})

\* C24: the list _sort_polygon returns is a permutation of its input, and
\* of every two polygons whose first points differ in y by 10 or more, the
\* one with the smaller y comes first.
C24_TopToBottomAcrossBands ==
    sorted_points # None =>
        /\ Len(sorted_points.points) = Len(plate_points)
        /\ \A i \in 1..Len(plate_points) :
              Count(sorted_points.points, plate_points[i])
                  = Count(plate_points, plate_points[i])
        /\ \A i, j \in 1..Len(sorted_points.points) :
              (/\ Abs(First(i)[2] - First(j)[2]) >= band
               /\ First(i)[2] < First(j)[2]) => i < j

\* three polygons, the inner loop has moved one, and two of them are a
\* band or more apart
C24_Witness ==
    /\ sorted_points # None
    /\ Len(plate_points) = MaxPolygons
    /\ sorted_points.points # list_sort(plate_points)
    /\ \E i, j \in 1..Len(sorted_points.points) :
          Abs(First(i)[2] - First(j)[2]) >= band

---------------------------------------------------------------------------
(* Claims about Embeddings.reindex (checked under ReindexSpec).            *)

\* C26: in every progress report reindex sends, the first one, the one of
\* each batch and the last one, 0 <= processed_objects <= total_objects,
\* for every number of matching events, 0 and numbers below the batch size
\* included; in the last report processed_objects equals total_objects.
C26_ProgressCounter ==
    \A k \in 1..Len(sent) :
        /\ 0 <= sent[k].processed_objects
        /\ sent[k].processed_objects <= sent[k].total_objects
        /\ sent[k].status = "completed"
              => sent[k].processed_objects = sent[k].total_objects

====
